---------------------------- MODULE Spec2Model ----------------------------
(***************************************************************************)
(* A model of fish's `set` builtin (src/src/builtin_set.cpp).              *)
(*                                                                         *)
(* Strings are sequences of one-character strings, so that the index       *)
(* parser, the array encoding and the path validation work on characters   *)
(* as the code does.  One invocation of builtin_set is one action; the     *)
(* shell then records its return value as the last exit status.            *)
(***************************************************************************)
EXTENDS Integers, Sequences, FiniteSets, TLC

(***************************************************************************)
(* Bounds of the model.                                                    *)
(***************************************************************************)
\* Longest array an invocation may leave in the store.
MaxLen == 3
\* Largest magnitude of an index written in an index token.
MaxIndex == 3

(***************************************************************************)
(* Exit statuses and store return codes.                                   *)
(***************************************************************************)
STATUS_CMD_OK == 0
STATUS_CMD_ERROR == 1
STATUS_INVALID_ARGS == 2

ENV_OK == 0
ENV_PERM == 1
ENV_SCOPE == 2
ENV_INVALID == 3

\* errno values fish_wcstol leaves behind; -1 flags trailing characters.
EINVAL == 22
ERRNO_TRAILING == -1

(***************************************************************************)
(* Characters and strings.                                                 *)
(***************************************************************************)
NUL == "\\0"
SEP == "\\x1e"
Digits == <<"0", "1", "2", "3", "4", "5", "6", "7", "8", "9">>
DigitChars == {Digits[i] : i \in 1..10}
Letters == {"f", "v", "P", "A", "T", "H", "C", "D", "u", "m", "a", "s", "k", "b", "d", "r", "x"}

\* *src for a pointer p into the NUL-terminated string s (positions from 1).
At(s, p) == IF p >= 1 /\ p <= Len(s) THEN s[p] ELSE NUL

iswspace(c) == c = " "
iswalnum(c) == c \in Letters \/ c \in DigitChars
DigitVal(c) == CHOOSE i \in 0..9 : Digits[i + 1] = c

\* wcschr(s, c): the position of the first c in s, 0 when there is none.
wcschr(s, c) == IF \E i \in 1..Len(s) : s[i] = c
                THEN CHOOSE i \in 1..Len(s) : s[i] = c /\ \A j \in 1..(i - 1) : s[j] # c
                ELSE 0

string_prefixes_string(pre, s) == Len(pre) <= Len(s) /\ SubSeq(s, 1, Len(pre)) = pre

contains(list, s) == \E i \in 1..Len(list) : list[i] = s

\* The largest element of a non-empty set of integers.
SetMax(S) == CHOOSE m \in S : \A n \in S : n <= m

(***************************************************************************)
(* The array encoding: a list of strings is stored as one string, its      *)
(* elements joined by ARRAY_SEP; the empty list is the string ENV_NULL.    *)
(***************************************************************************)
ENV_NULL == <<"\\x1d">>

RECURSIVE JoinFrom(_, _)
JoinFrom(list, i) == IF i > Len(list) THEN <<>>
                     ELSE IF i = Len(list) THEN list[i]
                     ELSE list[i] \o <<SEP>> \o JoinFrom(list, i + 1)

list_to_array_val(list) == IF Len(list) = 0 THEN ENV_NULL ELSE JoinFrom(list, 1)

\* Split val at every ARRAY_SEP from position p on; cur is the element so far.
RECURSIVE SplitFrom(_, _, _)
SplitFrom(val, p, cur) == IF p > Len(val) THEN <<cur>>
                          ELSE IF val[p] = SEP THEN <<cur>> \o SplitFrom(val, p + 1, <<>>)
                          ELSE SplitFrom(val, p + 1, Append(cur, val[p]))

tokenize_variable_array(val) == IF val = ENV_NULL THEN <<>> ELSE SplitFrom(val, 1, <<>>)

(***************************************************************************)
(* The variable store: three scope tables.  An env_var_t is a string with  *)
(* a missing flag.                                                         *)
(***************************************************************************)
Scopes == <<"local", "global", "universal">>
ScopeSet == {Scopes[i] : i \in 1..3}

PATH == <<"P", "A", "T", "H">>
CDPATH == <<"C", "D", "P", "A", "T", "H">>
NameF == <<"f">>
NameV == <<"v">>
NameRO == <<"_">>
NameUmask == <<"u", "m", "a", "s", "k">>
\* The variable names the store holds entries for.
Keys == {NameF, NameV, PATH, CDPATH, NameRO, NameUmask}

missing_var == [missing |-> TRUE, str |-> <<>>, exportv |-> FALSE]
env_var(s, x) == [missing |-> FALSE, str |-> s, exportv |-> x]

EmptyEnv == [sc \in ScopeSet |-> [k \in Keys |-> missing_var]]

\* The mode bits of env.h, as a set of names.
ENV_DEFAULT == {}
ScopeBits == {"ENV_LOCAL", "ENV_GLOBAL", "ENV_UNIVERSAL"}
BitOf(sc) == CASE sc = "local" -> "ENV_LOCAL"
               [] sc = "global" -> "ENV_GLOBAL"
               [] sc = "universal" -> "ENV_UNIVERSAL"

\* The scopes a lookup with this mode searches.
Searched(mode) == IF mode \cap ScopeBits = {} THEN ScopeSet
                  ELSE {sc \in ScopeSet : BitOf(sc) \in mode}

\* Whether a lookup with this mode sees an entry of this export status.
ExportMatches(x, mode) == IF x THEN "ENV_EXPORT" \in mode \/ "ENV_UNEXPORT" \notin mode
                          ELSE "ENV_UNEXPORT" \in mode \/ "ENV_EXPORT" \notin mode

Has(env, sc, key, mode) ==
    /\ key \in Keys
    /\ sc \in Searched(mode)
    /\ ~env[sc][key].missing
    /\ ExportMatches(env[sc][key].exportv, mode)

\* The innermost scope in which a lookup with this mode finds key, "" when none.
FoundScope(env, key, mode) ==
    IF \E i \in 1..3 : Has(env, Scopes[i], key, mode)
    THEN Scopes[CHOOSE i \in 1..3 : /\ Has(env, Scopes[i], key, mode)
                                    /\ \A j \in 1..(i - 1) : ~Has(env, Scopes[j], key, mode)]
    ELSE ""

\* The entry of key in scope sc, the missing variable when sc is "".
EntryIn(env, key, sc) == IF sc = "" THEN missing_var ELSE env[sc][key]

env_get_string(env, key, mode) == EntryIn(env, key, FoundScope(env, key, mode))

env_exist(env, key, mode) == FoundScope(env, key, mode) # ""

env_get_names(env, mode) == {k \in Keys : \E sc \in ScopeSet : Has(env, sc, k, mode)}

is_read_only(key) == key = NameRO

IsOctal(s) == Len(s) > 0 /\ \A i \in 1..Len(s) : s[i] \in {Digits[d] : d \in 1..8}

\* The answer of env_set for this key, value (a list) and mode.
env_set_rc(key, list, mode) ==
    IF is_read_only(key) /\ mode \cap {"ENV_LOCAL", "ENV_UNIVERSAL"} # {} THEN ENV_SCOPE
    ELSE IF is_read_only(key) THEN ENV_PERM
    ELSE IF key = NameUmask /\ ~(Len(list) = 1 /\ IsOctal(list[1])) THEN ENV_INVALID
    ELSE ENV_OK

\* The scope env_set writes: the one named, else the one found holding the
\* variable, else global.
SetScopeFound(mode, found) ==
    IF "ENV_LOCAL" \in mode THEN "local"
    ELSE IF "ENV_GLOBAL" \in mode THEN "global"
    ELSE IF "ENV_UNIVERSAL" \in mode THEN "universal"
    ELSE IF found # "" THEN found
    ELSE "global"

SetScope(env, key, mode) == SetScopeFound(mode, FoundScope(env, key, ENV_DEFAULT))

\* The export status env_set gives the entry in scope sc: as asked, else as it was.
SetExport(env, key, mode, sc) ==
    IF "ENV_EXPORT" \in mode THEN TRUE
    ELSE IF "ENV_UNEXPORT" \in mode THEN FALSE
    ELSE env[sc][key].exportv

\* A NULL val of env_set, which stores the empty array.
NULLVAL == <<NUL>>

\* The store after env_set has written str into scope sc.
EnvSetIn(env, key, str, mode, sc) ==
    [env EXCEPT ![sc][key] = env_var(str, SetExport(env, key, mode, sc))]

\* env_set(key, val, mode) answering rc: the store after the call.
env_set(env, key, val, mode, rc) ==
    IF key \in Keys /\ rc = ENV_OK
    THEN EnvSetIn(env, key, IF val = NULLVAL THEN ENV_NULL ELSE val, mode,
                  SetScope(env, key, mode))
    ELSE env

\* env_remove: 0 when the variable was removed, nonzero otherwise.
EnvRemoveRc(key, found) ==
    IF is_read_only(key) THEN 2
    ELSE IF found # "" THEN 0
    ELSE 1

env_remove_rc(env, key, mode) == EnvRemoveRc(key, FoundScope(env, key, mode))

EnvRemoveIn(env, key, found) ==
    IF EnvRemoveRc(key, found) = 0 THEN [env EXCEPT ![found][key] = missing_var]
    ELSE env

env_remove(env, key, mode) == EnvRemoveIn(env, key, FoundScope(env, key, mode))

\* valid_var_name: non-empty, only alphanumerics and underscores.
valid_var_name(s) == Len(s) > 0 /\ \A i \in 1..Len(s) : iswalnum(s[i]) \/ s[i] = "_"

(***************************************************************************)
(* The file system seen by wstat and waccess.                              *)
(***************************************************************************)
DirD == <<"/", "d">>
DirX == <<"/", "x">>
DirColon == <<"/", "x", ":", "r">>
RelR == <<"r">>
\* Existing directories with search permission.
TraversableDirs == {DirD}

(***************************************************************************)
(* fish_wcstol: skip white space, convert an optionally signed decimal     *)
(* number, skip white space again.  errno is EINVAL when nothing was       *)
(* converted, -1 when characters follow the number, 0 otherwise.           *)
(***************************************************************************)
RECURSIVE SkipSpace(_, _)
SkipSpace(s, p) == IF iswspace(At(s, p)) THEN SkipSpace(s, p + 1) ELSE p

\* The digits of s from p on: their value (after acc) and the position after them.
RECURSIVE ScanDigits(_, _, _)
ScanDigits(s, p, acc) ==
    IF At(s, p) \in DigitChars THEN ScanDigits(s, p + 1, 10 * acc + DigitVal(At(s, p)))
    ELSE [val |-> acc, end |-> p]

\* wcstol(str, &endptr, 10) at position p, q being p past the white space and d
\* q past the sign: endptr = p when no digit follows.
WcstolDigits(s, p, q, d, n) ==
    IF n.end = d THEN [val |-> 0, end |-> p]
    ELSE [val |-> IF At(s, q) = "-" THEN 0 - n.val ELSE n.val, end |-> n.end]

WcstolSign(s, p, q, d) == WcstolDigits(s, p, q, d, ScanDigits(s, d, 0))

WcstolAt(s, p, q) == WcstolSign(s, p, q, IF At(s, q) \in {"-", "+"} THEN q + 1 ELSE q)

wcstol(s, p) == WcstolAt(s, p, SkipSpace(s, p))

\* fish_wcstol once wcstol has converted n from str and the trailing white space
\* ends at endp.
FishWcstolEnd(s, str, n, endp) ==
    [val |-> n.val, end |-> endp,
     errno |-> IF At(s, endp) # NUL THEN (IF endp = str THEN EINVAL ELSE ERRNO_TRAILING)
               ELSE 0]

FishWcstolConv(s, str, n) == FishWcstolEnd(s, str, n, SkipSpace(s, n.end))

FishWcstolAt(s, str) ==
    IF At(s, str) = NUL THEN [val |-> 0, end |-> str, errno |-> EINVAL]
    ELSE FishWcstolConv(s, str, wcstol(s, str))

fish_wcstol(s, p) == FishWcstolAt(s, SkipSpace(s, p))

(***************************************************************************)
(* parse_index: the indexes of a token name[index1 index2...].             *)
(***************************************************************************)
\* A variant of the range loop that stops before the upper bound.
RECURSIVE RangeBefore(_, _, _)
RangeBefore(jjj, l_ind2, direction) ==
    IF jjj * direction < l_ind2 * direction
    THEN <<jjj>> \o RangeBefore(jjj + direction, l_ind2, direction)
    ELSE <<>>

\* The indexes of a range l_ind..l_ind2, counting down when l_ind2 < l_ind.
RECURSIVE RangeFrom(_, _, _)
RangeFrom(jjj, l_ind2, direction) ==
    IF jjj * direction <= l_ind2 * direction
    THEN <<jjj>> \o RangeFrom(jjj + direction, l_ind2, direction)
    ELSE <<>>

\* The position of the first character of s from p on that is not part of a name.
RECURSIVE SkipName(_, _)
SkipName(s, p) == IF At(s, p) # NUL /\ (iswalnum(At(s, p)) \/ At(s, p) = "_")
                  THEN SkipName(s, p + 1) ELSE p

\* wcsncmp(a, b, n) = 0
wcsncmp_eq(a, b, n) == \A i \in 1..n : At(a, i) = At(b, i)

\* if (l_ind < 0) l_ind = var_count + l_ind + 1
FromEnd(l_ind, var_count) == IF l_ind < 0 THEN var_count + l_ind + 1 ELSE l_ind

\* The loop of parse_index from position p: ret is the value returned, indexes
\* the caller's vector after the call, err the message printed ("" for none).
RECURSIVE ParseLoop(_, _, _, _, _)

\* Lines 209-214: the range is pushed, then the white space after end skipped.
ParseRangePush(src, indexes, count, var_count, range, end) ==
    ParseLoop(src, SkipSpace(src, end), indexes \o range, count + Len(range), var_count)

\* Lines 200-214: after "..", n2 is what fish_wcstol made of the upper bound.
ParseRange(src, indexes, count, var_count, l_ind, n2) ==
    IF n2.errno > 0 THEN [ret |-> 1, indexes |-> indexes, err |-> ""]
    ELSE ParseRangePush(src, indexes, count, var_count,
                        RangeFrom(l_ind, FromEnd(n2.val, var_count),
                                  IF FromEnd(n2.val, var_count) < l_ind THEN 0 - 1 ELSE 1),
                        n2.end)

\* Lines 197-220: l_ind is the resolved index, e the position after its number.
ParseAfterNumber(src, indexes, count, var_count, l_ind, e) ==
    IF At(src, e) = "." /\ At(src, e + 1) = "."
    THEN ParseRange(src, indexes, count, var_count, l_ind, fish_wcstol(src, e + 2))
    ELSE ParseLoop(src, SkipSpace(src, e), Append(indexes, l_ind), count + 1, var_count)

\* A variant of lines 189-195 that treats an index that is no number as lines
\* 201-203 treat such an upper bound: it stops and returns 1.
ParseNumberCut(src, indexes, count, var_count, n1) ==
    IF n1.errno > 0 THEN [ret |-> 1, indexes |-> indexes, err |-> ""]
    ELSE ParseAfterNumber(src, indexes, count, var_count, FromEnd(n1.val, var_count),
                          n1.end)

\* Lines 189-195: n1 is what fish_wcstol made of the index.
ParseNumber(src, indexes, count, var_count, n1) ==
    IF n1.errno > 0 THEN [ret |-> 0, indexes |-> indexes, err |-> "invalid_index"]
    ELSE ParseAfterNumber(src, indexes, count, var_count, FromEnd(n1.val, var_count),
                          n1.end)

ParseLoop(src, p, indexes, count, var_count) ==
    IF At(src, p) = "]" THEN [ret |-> count, indexes |-> indexes, err |-> ""]
    ELSE ParseNumber(src, indexes, count, var_count, fish_wcstol(src, p))

\* Lines 171-185: br is the position of the first character after the name.
ParseBracket(indexes, src, name, var_count, br) ==
    IF At(src, br) # "["
    THEN [ret |-> 0, indexes |-> indexes, err |-> "arg_count"]
    ELSE IF ~wcsncmp_eq(src, name, br - 1) \/ Len(name) # br - 1
    THEN [ret |-> 0, indexes |-> indexes, err |-> "multiple_names"]
    ELSE ParseLoop(src, SkipSpace(src, br + 1), indexes, 0, var_count)

parse_index(indexes, src, name, var_count) ==
    ParseBracket(indexes, src, name, var_count, SkipName(src, 1))

(***************************************************************************)
(* update_values and erase_values.                                         *)
(***************************************************************************)
\* list.resize(n): cut, or fill with empty strings.
Resize(list, n) == [i \in 1..n |-> IF i <= Len(list) THEN list[i] ELSE <<>>]

\* A variant of the loop that takes the pairs from the last to the first, so
\* that the first pair naming a position wins.
RECURSIVE UpdateBackFrom(_, _, _, _)
UpdateBackFrom(list, indexes, values, i) ==
    IF i > Len(indexes) THEN [ret |-> 0, list |-> list]
    ELSE LET k == Len(indexes) + 1 - i
             ind == indexes[k] - 1
             newv == IF k <= Len(values) THEN values[k] ELSE <<>>
         IN IF ind < 0 THEN [ret |-> 1, list |-> list]
            ELSE LET grown == IF ind >= Len(list) THEN Resize(list, ind + 1) ELSE list
                 IN UpdateBackFrom([grown EXCEPT ![ind + 1] = newv], indexes, values, i + 1)

\* The loop of update_values from pair i on: ret is 1 once an index is below 1;
\* list is the caller's list as the call leaves it.  Reading values[i] past the
\* end of values is out of bounds; the model reads an empty string there.
RECURSIVE UpdateFrom(_, _, _, _)
UpdateFrom(list, indexes, values, i) ==
    IF i > Len(indexes) THEN [ret |-> 0, list |-> list]
    ELSE LET ind == indexes[i] - 1
             newv == IF i <= Len(values) THEN values[i] ELSE <<>>
         IN IF ind < 0 THEN [ret |-> 1, list |-> list]
            ELSE LET grown == IF ind >= Len(list) THEN Resize(list, ind + 1) ELSE list
                 IN UpdateFrom([grown EXCEPT ![ind + 1] = newv], indexes, values, i + 1)

update_values(list, indexes, values) == UpdateFrom(list, indexes, values, 1)

\* list.erase(list.begin() + val - 1)
EraseAt(list, val) == SubSeq(list, 1, val - 1) \o SubSeq(list, val + 1, Len(list))

\* A variant of the walk that goes from the smallest index up, so that each
\* removal shifts the positions the later indexes name.
RECURSIVE EraseUp(_, _)
EraseUp(list, indexes_set) ==
    IF indexes_set = {} THEN list
    ELSE LET val == CHOOSE x \in indexes_set : \A y \in indexes_set : x <= y
         IN EraseUp(IF val > 0 /\ val <= Len(list) THEN EraseAt(list, val) ELSE list,
                    indexes_set \ {val})

\* Walk the set of indexes from the largest down.
RECURSIVE EraseDown(_, _)
EraseDown(list, indexes_set) ==
    IF indexes_set = {} THEN list
    ELSE LET val == SetMax(indexes_set)
         IN EraseDown(IF val > 0 /\ val <= Len(list) THEN EraseAt(list, val) ELSE list,
                      indexes_set \ {val})

erase_values(list, indexes) == EraseDown(list, {indexes[i] : i \in 1..Len(indexes)})

(***************************************************************************)
(* What one invocation works on: the store, what it called and printed,    *)
(* and the locals of builtin_set the properties speak about.               *)
(***************************************************************************)
Frame(e) == [env |-> e, calls |-> <<>>, errs |-> <<>>, out |-> <<>>, retcode |-> STATUS_CMD_OK,
             dest |-> <<>>, slice |-> FALSE, indexes |-> <<>>, result |-> <<>>,
             value |-> <<>>, updated |-> FALSE, update_ret |-> 0,
             set_called |-> FALSE, set_list |-> <<>>, set_ret |-> STATUS_CMD_OK]

Call(t, f) == [t EXCEPT !.calls = Append(@, f)]
Err(t, msgs) == [t EXCEPT !.errs = @ \o msgs]
Return(t, rc) == [t EXCEPT !.retcode = rc]

(***************************************************************************)
(* my_env_set                                                              *)
(***************************************************************************)
path_variables == <<PATH, CDPATH>>
is_path_variable(key) == contains(path_variables, key)

missing_or_empty(v) == v.missing \/ Len(v.str) = 0

\* wstat succeeds, the target is a directory and waccess(X_OK) succeeds.
DirectoryOk(dir) == dir \in TraversableDirs

\* The validation loop of my_env_set from element i on: the messages it prints
\* and whether any element passed.
RECURSIVE ValidateFrom(_, _, _, _, _)
ValidateFrom(list, existing_values, i, any_success, errs) ==
    IF i > Len(list) THEN [any_success |-> any_success, errs |-> errs]
    ELSE LET dir == list[i]
         IN IF ~string_prefixes_string(<<"/">>, dir) \/ contains(existing_values, dir)
            THEN ValidateFrom(list, existing_values, i + 1, TRUE, errs)
            ELSE IF DirectoryOk(dir)
            THEN ValidateFrom(list, existing_values, i + 1, TRUE, errs)
            ELSE LET colon == wcschr(dir, ":")
                     show_hint == colon # 0 /\ At(dir, colon + 1) # NUL
                 IN ValidateFrom(list, existing_values, i + 1, any_success,
                                 errs \o <<"path_error">>
                                      \o (IF show_hint THEN <<"path_hint">> ELSE <<>>))

\* The message my_env_set prints for a rejected write.
EnvSetMessage(rc) == CASE rc = ENV_PERM -> <<"read_only">>
                       [] rc = ENV_SCOPE -> <<"wrong_scope">>
                       [] rc = ENV_INVALID -> <<"invalid_value">>
                       [] OTHER -> <<>>

\* Lines 116-148: env_set has been handed val and answered rc.
EnvSetAnswered(t, key, val, mode, rc) ==
    [t EXCEPT !.calls = Append(@, "env_set"),
              !.env = env_set(@, key, IF val = ENV_NULL THEN NULLVAL ELSE val, mode, rc),
              !.errs = @ \o EnvSetMessage(rc),
              !.set_ret = IF rc = ENV_OK THEN STATUS_CMD_OK ELSE STATUS_CMD_ERROR]

\* The call of env_set and the translation of its answer (lines 113-148).
CallEnvSet(t, key, list, scope) ==
    EnvSetAnswered(t, key, list_to_array_val(list), scope \cup {"ENV_USER"},
                   env_set_rc(key, list, scope \cup {"ENV_USER"}))

\* A variant of lines 106-111 that refuses the write as soon as one element
\* failed the validation.
MyEnvSetAllValid(t, key, list, scope, v) ==
    IF Len(list) # 0 /\ v.errs # <<>>
    THEN [t EXCEPT !.errs = @ \o v.errs, !.set_ret = STATUS_CMD_ERROR]
    ELSE CallEnvSet(Err(t, v.errs), key, list, scope)

\* Lines 106-111: v is the outcome of the validation loop.
MyEnvSetValidated(t, key, list, scope, v) ==
    IF Len(list) # 0 /\ ~v.any_success
    THEN [t EXCEPT !.errs = @ \o v.errs, !.set_ret = STATUS_CMD_ERROR]
    ELSE CallEnvSet(Err(t, v.errs), key, list, scope)

\* Lines 64-67: the elements of the existing value.
ExistingValues(existing_variable) ==
    IF ~missing_or_empty(existing_variable)
    THEN tokenize_variable_array(existing_variable.str)
    ELSE <<>>

\* my_env_set(key, list, scope): its return value is left in set_ret.
my_env_set(t, key, list, scope) ==
    IF is_path_variable(key)
    THEN MyEnvSetValidated(
             [t EXCEPT !.set_called = TRUE, !.set_list = list,
                       !.calls = Append(@, "env_get_string")],
             key, list, scope,
             ValidateFrom(list, ExistingValues(env_get_string(t.env, key, ENV_DEFAULT)),
                          1, FALSE, <<>>))
    ELSE CallEnvSet([t EXCEPT !.set_called = TRUE, !.set_list = list], key, list, scope)

(***************************************************************************)
(* print_variables, show_scope, builtin_set_show                           *)
(***************************************************************************)
\* The characters in code point order.
Collation == <<" ", "+", "-", ".", "/", "0", "1", "2", "3", "4", "5", "6", "7", "8", "9",
               ":", "A", "C", "D", "H", "P", "T", "[", "]", "_", "a", "b", "d", "f", "k",
               "m", "r", "s", "u", "v", "x">>
Rank(c) == IF \E i \in 1..Len(Collation) : Collation[i] = c
           THEN CHOOSE i \in 1..Len(Collation) : Collation[i] = c
           ELSE 0

\* a < b for strings.
RECURSIVE LessFrom(_, _, _)
LessFrom(a, b, i) == IF i > Len(b) THEN FALSE
                     ELSE IF i > Len(a) THEN TRUE
                     ELSE IF a[i] = b[i] THEN LessFrom(a, b, i + 1)
                     ELSE Rank(a[i]) < Rank(b[i])

Least(S) == CHOOSE a \in S : \A b \in S \ {a} : LessFrom(a, b, 1)

\* sort(names.begin(), names.end())
RECURSIVE SortNames(_)
SortNames(S) == IF S = {} THEN <<>> ELSE <<Least(S)>> \o SortNames(S \ {Least(S)})

\* One line of print_variables for key, whose value in the scope is value.
VariableLine(key, value, include_values, shorten_ok) ==
    IF include_values /\ ~value.missing
    THEN [key |-> key,
          value |-> IF shorten_ok /\ Len(value.str) > 64 THEN SubSeq(value.str, 1, 60)
                    ELSE value.str,
          shortened |-> shorten_ok /\ Len(value.str) > 64]
    ELSE [key |-> key, value |-> <<>>, shortened |-> FALSE]

\* The loop of print_variables over the sorted names.
PrintNames(t, names, include_values, shorten_ok, scope) ==
    [t EXCEPT !.calls = @ \o <<"env_get_names">>
                          \o [i \in 1..(IF include_values THEN Len(names) ELSE 0) |->
                                 "env_get_string"],
              !.out = @ \o [i \in 1..Len(names) |->
                               VariableLine(names[i], env_get_string(t.env, names[i], scope),
                                            include_values, shorten_ok)]]

print_variables(t, include_values, shorten_ok, scope) ==
    PrintNames(t, SortNames(env_get_names(t.env, scope)), include_values, shorten_ok, scope)

\* The elements show_scope lists: all of them, or the first and last 50 of more
\* than 100.
ShownElements(n) == {i \in 0..(n - 1) : ~(n > 100 /\ i >= 50 /\ i < n - 50)}

\* Lines 328-347: the report of a variable that is set in the scope.
ShowSet(t, var_name, scope, exported, n) ==
    [t EXCEPT !.calls = @ \o <<"env_exist", "env_get_string", "env_get_string">>,
              !.out = Append(@, [key |-> var_name, scope |-> scope, set |-> TRUE,
                                 exported |-> exported, elements |-> n,
                                 listed |-> {i + 1 : i \in ShownElements(n)}])]

\* if (!var.empty()) tokenize_variable_array(var, result)
ShowElements(var) == IF Len(var.str) # 0 THEN tokenize_variable_array(var.str) ELSE <<>>

\* show_scope: one report of var_name in one scope.
show_scope(t, var_name, scope) ==
    IF env_exist(t.env, var_name, {scope})
    THEN ShowSet(t, var_name, scope,
                 ~env_get_string(t.env, var_name, {scope, "ENV_EXPORT", "ENV_USER"}).missing,
                 Len(ShowElements(env_get_string(t.env, var_name, {scope, "ENV_USER"}))))
    ELSE [t EXCEPT !.calls = Append(@, "env_exist"),
                   !.out = Append(@, [key |-> var_name, scope |-> scope, set |-> FALSE,
                                      exported |-> FALSE, elements |-> 0, listed |-> {}])]

show_scopes(t, var_name) ==
    show_scope(show_scope(show_scope(t, var_name, "ENV_LOCAL"), var_name, "ENV_GLOBAL"),
               var_name, "ENV_UNIVERSAL")

\* The loop of builtin_set_show over all names (argc = 0).
RECURSIVE ShowAll(_, _, _)
ShowAll(t, names, i) == IF i > Len(names) THEN t
                        ELSE ShowAll(show_scopes(t, names[i]), names, i + 1)

\* The loop of builtin_set_show over argv from argument i on.
RECURSIVE ShowArgs(_, _, _)
ShowArgs(t, argv, i) ==
    IF i > Len(argv) THEN Return(t, STATUS_CMD_OK)
    ELSE IF ~valid_var_name(argv[i])
    THEN ShowArgs(Err(t, <<"invalid_var_name">>), argv, i + 1)
    ELSE IF wcschr(argv[i], "[") # 0
    THEN Return(Err(t, <<"show_no_slices", "help">>), STATUS_CMD_ERROR)
    ELSE ShowArgs(show_scopes(t, argv[i]), argv, i + 1)

builtin_set_show(t, argv) ==
    IF Len(argv) = 0
    THEN Return(ShowAll(Call(t, "env_get_names"),
                        SortNames(env_get_names(t.env, {"ENV_USER"})), 1),
                STATUS_CMD_OK)
    ELSE ShowArgs(t, argv, 1)

(***************************************************************************)
(* builtin_set                                                             *)
(***************************************************************************)
\* An interactive session.
shell_is_interactive == TRUE

\* dest: the argument up to its first '[' (the whole argument when it has none).
DestOf(arg) == IF wcschr(arg, "[") # 0 THEN SubSeq(arg, 1, wcschr(arg, "[") - 1) ELSE arg

\* The scope value computed from the flags (lines 532-533).
ScopeOf(o) == (IF "l" \in o THEN {"ENV_LOCAL"} ELSE {})
              \cup (IF "g" \in o THEN {"ENV_GLOBAL"} ELSE {})
              \cup (IF "x" \in o THEN {"ENV_EXPORT"} ELSE {})
              \cup (IF "u" \in o THEN {"ENV_UNEXPORT"} ELSE {})
              \cup (IF "U" \in o THEN {"ENV_UNIVERSAL"} ELSE {})
              \cup {"ENV_USER"}

\* The number of scopes asked for: local + global + universal.
ScopeCount(o) == Cardinality(o \cap {"l", "g", "U"})

\* The array a fetched variable holds: empty when the variable is missing.
Fetched(dest_str) == IF ~dest_str.missing THEN tokenize_variable_array(dest_str.str)
                     ELSE <<>>

\* A variant of the count that takes only the indexes above the length as
\* missing.
RECURSIVE MissingAbove(_, _, _)
MissingAbove(indexes, n, j) ==
    IF j > Len(indexes) THEN 0
    ELSE (IF indexes[j] > n THEN 1 ELSE 0) + MissingAbove(indexes, n, j + 1)

\* How many of the indexes name no element of an array of n elements.
RECURSIVE MissingFrom(_, _, _)
MissingFrom(indexes, n, j) ==
    IF j > Len(indexes) THEN 0
    ELSE (IF indexes[j] < 1 \/ indexes[j] > n THEN 1 ELSE 0) + MissingFrom(indexes, n, j + 1)

\* The message of a failed parse_index, then the help text.
ParseErrs(pr) == (IF pr.err # "" THEN <<pr.err>> ELSE <<>>) \o <<"help">>

\* The loop of query mode from argument i on (lines 539-578).
RECURSIVE QueryFrom(_, _, _, _)

\* Lines 559-569: pr is what parse_index made of the argument.
QueryParsed(t, argv, i, scope, n, pr) ==
    IF pr.ret = 0
    THEN [t EXCEPT !.calls = Append(@, "env_get_string"), !.errs = @ \o ParseErrs(pr),
                   !.retcode = 1]
    ELSE QueryFrom([t EXCEPT !.calls = Append(@, "env_get_string"),
                             !.retcode = @ + MissingFrom(pr.indexes, n, 1)],
                   argv, i + 1, scope)

\* Lines 552-569: result is the array of the variable.
QuerySlice(t, argv, i, scope, result) ==
    QueryParsed(t, argv, i, scope, Len(result),
                parse_index(<<>>, argv[i], DestOf(argv[i]), Len(result)))

QueryFrom(t, argv, i, scope) ==
    IF i > Len(argv) THEN t
    ELSE IF wcschr(argv[i], "[") # 0
    THEN QuerySlice(t, argv, i, scope,
                    Fetched(env_get_string(t.env, DestOf(argv[i]), scope)))
    ELSE QueryFrom([t EXCEPT !.calls = Append(@, "env_exist"),
                             !.retcode = @ + (IF ~env_exist(t.env, argv[i], scope) THEN 1
                                              ELSE 0)],
                   argv, i + 1, scope)

\* The loop over the index tokens in slice mode from argument w on (lines
\* 629-651): retcode, the indexes gathered, and w as the loop leaves them.
RECURSIVE IndexFrom(_, _, _, _, _, _)

\* A variant of lines 630-650 that stops reading index tokens as soon as there
\* are at least as many values as indexes.
IndexParsedEnough(argv, w, dest, var_count, erase, pr) ==
    IF pr.ret = 0
    THEN [retcode |-> 1, indexes |-> pr.indexes, w |-> w, errs |-> ParseErrs(pr)]
    ELSE IF ~erase /\ Len(argv) - w < Len(pr.indexes)
    THEN [retcode |-> 1, indexes |-> pr.indexes, w |-> w, errs |-> <<"arg_count", "help">>]
    ELSE IF ~erase
    THEN [retcode |-> 0, indexes |-> pr.indexes, w |-> w + 1, errs |-> <<>>]
    ELSE IndexFrom(argv, w + 1, pr.indexes, dest, var_count, erase)

\* A variant of lines 630-650 that takes the count parse_index returned for the
\* number of indexes, where the code takes indexes.size().
IndexParsedByCount(argv, w, dest, var_count, erase, pr) ==
    IF pr.ret = 0
    THEN [retcode |-> 1, indexes |-> pr.indexes, w |-> w, errs |-> ParseErrs(pr)]
    ELSE IF ~erase /\ Len(argv) - w < pr.ret
    THEN [retcode |-> 1, indexes |-> pr.indexes, w |-> w, errs |-> <<"arg_count", "help">>]
    ELSE IF ~erase /\ Len(argv) - w = pr.ret
    THEN [retcode |-> 0, indexes |-> pr.indexes, w |-> w + 1, errs |-> <<>>]
    ELSE IndexFrom(argv, w + 1, pr.indexes, dest, var_count, erase)

\* Lines 630-650: pr is what parse_index made of argv[w].
IndexParsed(argv, w, dest, var_count, erase, pr) ==
    IF pr.ret = 0
    THEN [retcode |-> 1, indexes |-> pr.indexes, w |-> w, errs |-> ParseErrs(pr)]
    ELSE IF ~erase /\ Len(argv) - w < Len(pr.indexes)
    THEN [retcode |-> 1, indexes |-> pr.indexes, w |-> w, errs |-> <<"arg_count", "help">>]
    ELSE IF ~erase /\ Len(argv) - w = Len(pr.indexes)
    THEN [retcode |-> 0, indexes |-> pr.indexes, w |-> w + 1, errs |-> <<>>]
    ELSE IndexFrom(argv, w + 1, pr.indexes, dest, var_count, erase)

IndexFrom(argv, w, indexes, dest, var_count, erase) ==
    IF w > Len(argv)
    THEN [retcode |-> 0, indexes |-> indexes, w |-> w, errs |-> <<>>]
    ELSE IndexParsed(argv, w, dest, var_count, erase,
                     parse_index(indexes, argv[w], dest, var_count))

\* Lines 666-672: up is what update_values made of the array.
SliceUpdated(t, dest, scope, value, up) ==
    my_env_set([t EXCEPT !.value = value, !.updated = TRUE, !.update_ret = up.ret,
                         !.errs = @ \o (IF up.ret # 0 THEN <<"array_bounds">> ELSE <<>>)],
               dest, up.list, scope)

\* Lines 660-672: value is the rest of the arguments.
SliceAssign(t, dest, scope, result, indexes, value) ==
    SliceUpdated(t, dest, scope, value, update_values(result, indexes, value))

\* Lines 654-674: ix is the outcome of the loop over the index tokens.
SliceIndexed(t, argv, dest, scope, erase, result, ix) ==
    IF ix.retcode # 0
    THEN [t EXCEPT !.errs = @ \o ix.errs, !.retcode = ix.retcode, !.indexes = ix.indexes]
    ELSE IF erase
    THEN my_env_set([t EXCEPT !.indexes = ix.indexes], dest,
                    erase_values(result, ix.indexes), scope)
    ELSE SliceAssign([t EXCEPT !.indexes = ix.indexes], dest, scope, result, ix.indexes,
                     SubSeq(argv, ix.w, Len(argv)))

\* Lines 621-652: dest_str is the variable as fetched.
SliceFetched(t, argv, dest, scope, erase, dest_str) ==
    IF dest_str.missing /\ erase
    THEN [t EXCEPT !.calls = Append(@, "env_get_string"), !.retcode = 1]
    ELSE SliceIndexed([t EXCEPT !.calls = Append(@, "env_get_string"),
                                !.result = Fetched(dest_str)],
                      argv, dest, scope, erase, Fetched(dest_str),
                      IndexFrom(argv, 1, <<>>, dest, Len(Fetched(dest_str)), erase))

\* Slice mode (lines 616-674).
SliceMode(t, argv, dest, scope, erase) ==
    SliceFetched(t, argv, dest, scope, erase, env_get_string(t.env, dest, scope))

\* retcode = my_env_set(...)
ReturnSetRet(t) == Return(t, t.set_ret)

\* Whole-variable mode (lines 676-691).
WholeMode(t, argv, dest, scope, erase) ==
    IF erase
    THEN IF Len(argv) # 1
         THEN Return(Err(t, <<"erase_values", "help">>), 1)
         ELSE [t EXCEPT !.calls = Append(@, "env_remove"),
                        !.env = env_remove(@, dest, scope),
                        !.retcode = env_remove_rc(t.env, dest, scope)]
    ELSE ReturnSetRet(my_env_set(t, dest, SubSeq(argv, 2, Len(argv)), scope))

\* The end of builtin_set (lines 694-706): the shadowing warning and the exit
\* status handed back.
Finish(t, o, dest, incoming_exit_status) ==
    [t EXCEPT !.calls = Append(@, "env_get_string"),
              !.errs = @ \o (IF /\ "U" \in o
                                /\ ~env_get_string(t.env, dest, {"ENV_GLOBAL"}).missing
                                /\ shell_is_interactive
                             THEN <<"shadowed">> ELSE <<>>),
              !.retcode = IF @ = STATUS_CMD_OK /\ o \cap {"e", "n", "q", "S"} = {}
                          THEN incoming_exit_status ELSE @]

\* Lines 600-706: the command has a first argument.
WithDest(t, o, argv, incoming_exit_status) ==
    IF ~valid_var_name(t.dest)
    THEN Return(Err(t, <<"varname", "help">>), STATUS_INVALID_ARGS)
    ELSE Finish(IF t.slice THEN SliceMode(t, argv, t.dest, ScopeOf(o), "e" \in o)
                ELSE WholeMode(t, argv, t.dest, ScopeOf(o), "e" \in o),
                o, t.dest, incoming_exit_status)

\* builtin_set for the flags o (the options wgetopt hands over, none unknown) and
\* the arguments argv that follow them, in frame t, after a command that left
\* incoming_exit_status.
SetIn(t, o, argv, incoming_exit_status) ==
    IF "h" \in o THEN Return([t EXCEPT !.out = <<[help |-> TRUE]>>], STATUS_CMD_OK)
    ELSE IF "S" \in o THEN builtin_set_show(t, argv)
    ELSE IF "q" \in o /\ ("e" \in o \/ "n" \in o)
    THEN Return(Err(t, <<"combo", "help">>), STATUS_INVALID_ARGS)
    ELSE IF "e" \in o /\ "n" \in o
    THEN Return(Err(t, <<"combo", "help">>), STATUS_INVALID_ARGS)
    ELSE IF ScopeCount(o) > 1
    THEN Return(Err(t, <<"glocal", "help">>), STATUS_INVALID_ARGS)
    ELSE IF "x" \in o /\ "u" \in o
    THEN Return(Err(t, <<"expunexp", "help">>), STATUS_INVALID_ARGS)
    ELSE IF "q" \in o THEN QueryFrom(t, argv, 1, ScopeOf(o))
    ELSE IF "n" \in o
    THEN Return(print_variables(t, FALSE, "L" \notin o, ScopeOf(o)), STATUS_CMD_OK)
    ELSE IF Len(argv) = 0
    THEN (IF "e" \in o
          THEN Return(Err(t, <<"erase_needs_name", "help">>), STATUS_INVALID_ARGS)
          ELSE print_variables(t, TRUE, "L" \notin o, ScopeOf(o)))
    ELSE WithDest([t EXCEPT !.dest = DestOf(argv[1]), !.slice = wcschr(argv[1], "[") # 0],
                  o, argv, incoming_exit_status)

builtin_set(o, argv, e, incoming_exit_status) ==
    SetIn(Frame(e), o, argv, incoming_exit_status)

(***************************************************************************)
(* The command lines the model issues.                                     *)
(***************************************************************************)
\* The decimal numeral of n.
RECURSIVE Numeral(_)
Numeral(n) == IF n < 0 THEN <<"-">> \o Numeral(0 - n)
              ELSE IF n < 10 THEN <<Digits[n + 1]>>
              ELSE Numeral(n \div 10) \o <<Digits[(n % 10) + 1]>>

RangeExpr(a, b) == Numeral(a) \o <<".", ".">> \o Numeral(b)

\* The index expressions exprs, separated by blanks.
RECURSIVE Blanked(_, _)
Blanked(exprs, i) == IF i > Len(exprs) THEN <<>>
                     ELSE IF i = Len(exprs) THEN exprs[i]
                     ELSE exprs[i] \o <<" ">> \o Blanked(exprs, i + 1)

\* The token name[expr1 expr2 ...].
Token(name, exprs) == name \o <<"[">> \o Blanked(exprs, 1) \o <<"]">>

ValA == <<"a">>
ValB == <<"b">>
ValueLists == {<<>>, <<ValA>>, <<ValB>>, <<ValA, ValB>>, <<ValB, ValA>>, <<ValA, ValB, ValA>>}

\* The lists of index expressions of the slice commands: one index, one range,
\* or two indexes.
IndexLists ==
    {<<Numeral(n)>> : n \in (0 - MaxIndex)..MaxIndex}
    \cup {<<RangeExpr(a, b)>> : a \in {1, MaxIndex, 0 - 1}, b \in {1, MaxIndex, 0 - 1}}
    \cup {<<Numeral(i), Numeral(j)>> : i \in {0 - 1, 0, 1, 2, MaxIndex},
                                        j \in {0 - 1, 0, 1, 2, MaxIndex}}

VARIABLES
    env,          \* the variable store
    last_status,  \* proc_get_last_status()
    pc,           \* "idle": before a command; "done": builtin_set has returned
    opts,         \* the flags of the command that ran
    argv,         \* its arguments after the flags
    env0,         \* the store before it ran
    run           \* what it did: see Frame

vars == <<env, last_status, pc, opts, argv, env0, run>>

Init ==
    /\ env = EmptyEnv
    /\ last_status = 0
    /\ pc = "idle"
    /\ opts = {}
    /\ argv = <<>>
    /\ env0 = EmptyEnv
    /\ run = Frame(EmptyEnv)

\* No array in the store is longer than MaxLen.
WithinBounds(e) ==
    \A sc \in ScopeSet : \A k \in Keys : Len(Fetched(e[sc][k])) <= MaxLen

\* The shell runs `set` with flags o and arguments a.
Invoke(o, a) ==
    /\ pc = "idle"
    /\ run' = builtin_set(o, a, env, last_status)
    /\ env' = run'.env
    /\ WithinBounds(env')
    /\ opts' = o
    /\ argv' = a
    /\ env0' = env
    /\ pc' = "done"
    /\ UNCHANGED last_status

\* set f[...] values...
SetSliceAssign ==
    \E exprs \in IndexLists, vals \in ValueLists :
        Invoke({}, <<Token(NameF, exprs)>> \o vals)

\* set f[i] f[j] values...
SetSliceTokens ==
    \E i \in 1..2, j \in 1..2, vals \in ValueLists :
        Invoke({}, <<Token(NameF, <<Numeral(i)>>), Token(NameF, <<Numeral(j)>>)>> \o vals)

\* set -e f[...]
SetSliceErase ==
    \E exprs \in IndexLists : Invoke({"e"}, <<Token(NameF, exprs)>>)

\* set f values...
SetWhole ==
    \E vals \in ValueLists : Invoke({}, <<NameF>> \o vals)

\* set -e f, with and without a value
SetEraseWhole ==
    \E vals \in {<<>>, <<ValA>>} : Invoke({"e"}, <<NameF>> \o vals)

\* The shell records the exit status of the command and reads the next one.
RecordStatus ==
    /\ pc = "done"
    /\ last_status' = run.retcode
    /\ pc' = "idle"
    /\ opts' = {}
    /\ argv' = <<>>
    /\ env0' = env
    /\ run' = Frame(env)
    /\ UNCHANGED env

\* The targets of the query commands: names, and slices of f and v, two of
\* them not well formed.
QueryIndexLists ==
    {<<Numeral(n)>> : n \in (0 - MaxIndex)..MaxIndex}
    \cup {<<RangeExpr(1, 2)>>, <<RangeExpr(0 - 1, 1)>>, <<RangeExpr(2, MaxIndex + 1)>>}
    \cup {<<Numeral(1), Numeral(2)>>, <<Numeral(2), Numeral(2)>>,
          <<Numeral(0), Numeral(0 - 1)>>}

WellFormedTargets ==
    {NameF, NameV, Token(NameV, <<Numeral(1)>>)}
    \cup {Token(NameF, exprs) : exprs \in QueryIndexLists}

QueryTargets == WellFormedTargets \cup {Token(NameF, <<>>), Token(NameF, <<<<"x">>>>)}

\* set -q target..., in the default, the universal or the exported scope
\* The second targets of the query commands.
SecondTargets == {NameF, NameV, Token(NameF, <<Numeral(1)>>),
                  Token(NameF, <<Numeral(2), Numeral(2)>>), Token(NameF, <<<<"x">>>>)}

SetQuery ==
    \E o \in {{"q"}, {"q", "U"}, {"q", "x"}}, a \in QueryTargets, b \in SecondTargets :
        \/ Invoke(o, <<a>>)
        \/ Invoke(o, <<a, b>>)

\* set -U f b, set -e -U f
SetUniversal ==
    \/ Invoke({"U"}, <<NameF, ValB>>)
    \/ Invoke({"e", "U"}, <<NameF>>)

\* Every combination of the flags, with no argument and with the name v.
AllFlags == {"e", "n", "q", "S", "l", "g", "U", "x", "u", "L"}

SetFlags ==
    \E o \in SUBSET AllFlags :
        \/ Invoke(o, <<>>)
        \/ o \cap {"q", "S", "n"} # {} /\ Invoke(o, <<NameV>>)

\* set v and set -e v, in every combination of scopes
SetScoped ==
    \E o \in SUBSET {"e", "l", "g", "U"} : Invoke(o, <<NameV>>)

\* set -h
SetHelp == Invoke({"h"}, <<>>)

\* set -S target...
SetShow ==
    \E a \in {<<NameV>>, <<Token(NameV, <<Numeral(1)>>)>>,
              <<Token(NameV, <<Numeral(1)>>), NameV>>,
              <<NameV, Token(NameV, <<Numeral(1)>>)>>,
              <<<<"v", "-">>, NameV>>} :
        Invoke({"S"}, a)

\* Writes the store rejects: the read-only variable _, umask with a value that
\* is no octal number.
SetSpecial ==
    \E o \in {{}, {"l"}, {"e"}},
       a \in {<<NameRO, ValA>>, <<Token(NameRO, <<Numeral(1)>>), ValA>>,
              <<NameUmask, ValA>>, <<Token(NameUmask, <<Numeral(1)>>), ValA>>,
              <<NameRO>>, <<Token(NameRO, <<Numeral(1)>>)>>} :
        Invoke(o, a)

\* The values given to PATH and CDPATH.
PathLists ==
    {<<>>, <<DirColon>>}
    \cup {<<d>> : d \in {DirD, DirX, RelR}}
    \cup {<<d, e>> : d \in {DirD, DirX, RelR}, e \in {DirD, DirX, RelR}}

\* set PATH values..., set -l PATH values...
SetPath ==
    \E o \in {{}, {"l"}}, vals \in PathLists : Invoke(o, <<PATH>> \o vals)

\* set CDPATH value
SetCdpath ==
    \E d \in {DirX, RelR} : Invoke({}, <<CDPATH, d>>)

\* set PATH[i] value
SetPathSlice ==
    \E i \in 1..2, d \in {DirD, DirX, RelR} :
        Invoke({}, <<Token(PATH, <<Numeral(i)>>), d>>)

\* set -e PATH, set -e -l PATH
SetPathErase ==
    \E o \in {{"e"}, {"e", "l"}} : Invoke(o, <<PATH>>)

Next ==
    \/ SetSliceAssign
    \/ SetSliceTokens
    \/ SetSliceErase
    \/ SetWhole
    \/ SetEraseWhole
    \/ RecordStatus

Spec == Init /\ [][Next]_vars

NextQuery ==
    \/ SetWhole
    \/ SetEraseWhole
    \/ SetUniversal
    \/ SetQuery
    \/ RecordStatus

SpecQuery == Init /\ [][NextQuery]_vars

NextFlags ==
    \/ SetFlags
    \/ SetScoped
    \/ SetHelp
    \/ SetShow
    \/ SetSpecial
    \/ RecordStatus

SpecFlags == Init /\ [][NextFlags]_vars

NextPath ==
    \/ SetPath
    \/ SetCdpath
    \/ SetPathSlice
    \/ SetPathErase
    \/ RecordStatus

SpecPath == Init /\ [][NextPath]_vars

(***************************************************************************)
(* parse_index on its own: the caller's loop of lines 629-634 hands it the  *)
(* tokens of argv one after the other with the same index vector, the name  *)
(* run.dest and the length of run.result.  run.calls counts the calls made, *)
(* run.retcode is what the last call returned.                              *)
(***************************************************************************)
\* An index expression: <<v>> is the integer v, <<a, b>> the range a..b.
IndexValues == {0 - MaxIndex, 0 - 1, 0, 1, MaxIndex}

IndexExprs == {<<v>> : v \in (0 - MaxIndex)..MaxIndex}
              \cup {<<a, b>> : a \in IndexValues, b \in IndexValues}

FirstExprs == {<<2>>, <<0 - 1>>, <<1, 2>>, <<MaxIndex, 1>>}

\* The lists of index expressions of the tokens parsed.
ExprLists == {<<>>} \cup {<<e>> : e \in IndexExprs}
             \cup {<<e1, e2>> : e1 \in FirstExprs, e2 \in IndexExprs}

RenderExpr(e) == IF Len(e) = 1 THEN Numeral(e[1]) ELSE RangeExpr(e[1], e[2])

Rendered(es) == [i \in 1..Len(es) |-> RenderExpr(es[i])]

\* The token with a blank after the opening and before the closing bracket.
SpacedToken(name, exprs) == name \o <<"[", " ">> \o Blanked(exprs, 1) \o <<" ", "]">>

WellFormedTokens == {Token(NameF, Rendered(es)) : es \in ExprLists}
                    \cup {SpacedToken(NameF, Rendered(es)) : es \in ExprLists}

\* What follows the two dots of a range that has no upper bound.
RangeEnds == {<<"]">>, <<"x", "]">>, <<>>, <<" ", "]">>}

\* The expressions before such a range, and its lower bound.
TruncatedPrefixes == {<<>>, <<<<2>>>>, <<<<1, 2>>>>}
TruncatedLows == {1, 2, 0 - 1}

\* The token name[pre... low..rest
TruncatedToken(pre, low, rest) ==
    NameF \o <<"[">> \o Blanked(Rendered(pre) \o <<Numeral(low) \o <<".", ".">>>>, 1) \o rest

TruncatedTokens == {TruncatedToken(pre, low, rest) :
                        pre \in TruncatedPrefixes, low \in TruncatedLows, rest \in RangeEnds}

\* Tokens parse_index has to refuse: an index that is no number, characters
\* after a number, no closing bracket, another name, no bracket at all.
RefusedTokens ==
    {NameF \o <<"[", "x", "]">>, NameF \o <<"[", "1", "x", "]">>,
     NameF \o <<"[", "1", " ", "x", "]">>, NameF \o <<"[", "1">>,
     NameF \o <<"[", "x", ".", ".", "2", "]">>, NameF \o <<"[", "1", ".", "2", "]">>,
     Token(NameV, <<Numeral(1)>>), ValA}

\* The arrays whose length parse_index is given.
RECURSIVE ArrayOfLen(_)
ArrayOfLen(n) == IF n = 0 THEN <<>> ELSE Append(ArrayOfLen(n - 1), ValA)

ParsedArrays == {ArrayOfLen(n) : n \in 0..MaxLen}

\* The tokens that follow the first one.
NextTokens == {Token(NameF, <<Numeral(1)>>), Token(NameF, <<RangeExpr(0 - 1, 1)>>),
               Token(NameF, <<>>), TruncatedToken(<<>>, 1, <<"]">>)}

InitParse ==
    /\ env = EmptyEnv
    /\ last_status = 0
    /\ pc = "parse"
    /\ opts = {}
    /\ env0 = EmptyEnv
    /\ \E first \in WellFormedTokens \cup TruncatedTokens \cup RefusedTokens :
           argv \in {<<first>>} \cup {<<first, t>> : t \in NextTokens}
    /\ \E result \in ParsedArrays :
           run = [Frame(EmptyEnv) EXCEPT !.dest = NameF, !.result = result]

\* The frame after a call of parse_index that answered pr.
Parsed(t, pr) ==
    [t EXCEPT !.calls = Append(@, "parse_index"),
              !.indexes = pr.indexes,
              !.retcode = pr.ret,
              !.errs = @ \o (IF pr.err # "" THEN <<pr.err>> ELSE <<>>)]

\* if (!parse_index(indexes, argv[w.woptind], dest, result.size(), streams)) break;
ParseToken ==
    /\ pc = "parse"
    /\ Len(run.calls) < Len(argv)
    /\ Len(run.calls) = 0 \/ run.retcode # 0
    /\ run' = Parsed(run, parse_index(run.indexes, argv[Len(run.calls) + 1], run.dest,
                                      Len(run.result)))
    /\ UNCHANGED <<env, last_status, pc, opts, argv, env0>>

NextParse == ParseToken

SpecParse == InitParse /\ [][NextParse]_vars

(***************************************************************************)
(* Slice commands whose index tokens parse_index refuses, cuts short or    *)
(* finds empty.                                                            *)
(***************************************************************************)
\* The refused tokens that name f and open a bracket.
RefusedFirst == RefusedTokens \ {Token(NameV, <<Numeral(1)>>), ValA}

\* The values that follow two index tokens: at least one, so that the second
\* token is not taken for the value of the first.
SomeValues == ValueLists \ {<<>>}

\* set bad values..., set f[1] bad values..., set -e bad, set -e f[1] bad
SetRefused ==
    \E bad \in RefusedTokens :
        \/ \E vals \in ValueLists : bad \in RefusedFirst /\ Invoke({}, <<bad>> \o vals)
        \/ \E vals \in SomeValues : Invoke({}, <<Token(NameF, <<Numeral(1)>>), bad>> \o vals)
        \/ bad \in RefusedFirst /\ Invoke({"e"}, <<bad>>)
        \/ Invoke({"e"}, <<Token(NameF, <<Numeral(1)>>), bad>>)

\* The tokens with a range cut short that the commands use: f[1.. and f[2 1..
CommandTruncated == {TruncatedToken(pre, 1, rest) :
                         pre \in {<<>>, <<<<2>>>>}, rest \in RangeEnds}

\* set [-e] f[... low.. values..., alone, before and after the token f[1]
SetTruncated ==
    \E t \in CommandTruncated :
        \/ \E vals \in ValueLists : Invoke({}, <<t>> \o vals)
        \/ \E vals \in SomeValues :
               \/ Invoke({}, <<t, Token(NameF, <<Numeral(1)>>)>> \o vals)
               \/ Invoke({}, <<Token(NameF, <<Numeral(1)>>), t>> \o vals)
        \/ Invoke({"e"}, <<t>>)
        \/ Invoke({"e"}, <<t, Token(NameF, <<Numeral(1)>>)>>)
        \/ Invoke({"e"}, <<Token(NameF, <<Numeral(1)>>), t>>)

\* The tokens of the commands with two index tokens.
SeveralTokens == {Token(NameF, <<>>), Token(NameF, <<Numeral(1)>>),
                  Token(NameF, <<Numeral(2), Numeral(0 - 1)>>),
                  Token(NameF, <<RangeExpr(1, 2)>>),
                  TruncatedToken(<<>>, 1, <<"]">>)}

\* set f[...] f[...] values...
SetSeveral ==
    \E t1 \in SeveralTokens, t2 \in SeveralTokens, vals \in SomeValues :
        Invoke({}, <<t1, t2>> \o vals)

NextTokenErrors ==
    \/ SetWhole
    \/ SetRefused
    \/ SetTruncated
    \/ SetSeveral
    \/ RecordStatus

SpecTokens == Init /\ [][NextTokenErrors]_vars

(***************************************************************************)
(* Properties.  Each speaks about the state right after builtin_set has    *)
(* returned (pc = "done"): opts and argv are the command, env0 the store   *)
(* before it, env the store after it, last_status the status before it.    *)
(***************************************************************************)
Done == pc = "done"

\* The array of the command's variable, as the command's scope sees it in store e.
ArrayIn(e) == Fetched(env_get_string(e, run.dest, ScopeOf(opts)))

IndexSet == {run.indexes[i] : i \in 1..Len(run.indexes)}

\* The command reached update_values (slice mode, no --erase).
SlicedAssignment == Done /\ run.slice /\ "e" \notin opts /\ run.updated

\* C1: a sliced assignment with a non-positive index in its index list writes
\* nothing: env_set is not called and the store is as it was.
C1_BoundsErrorWritesNothing ==
    (SlicedAssignment /\ \E i \in IndexSet : i <= 0)
        => ("env_set" \notin {run.calls[i] : i \in 1..Len(run.calls)} /\ env = env0)

\* The command failed: the store or the path validation rejected the write, or
\* update_values reported a bounds error.
WriteFailed == \/ run.set_called /\ run.set_ret # STATUS_CMD_OK
               \/ run.updated /\ run.update_ret # 0

\* C2: outside query mode a failed invocation returns a nonzero status.
C2_FailureIsNonzero ==
    (Done /\ "q" \notin opts /\ WriteFailed) => run.retcode # 0

\* C3: --query with --erase or --names is rejected with the invalid-arguments
\* status before any store operation, whatever the other flags and arguments.
C3_QueryComboRejected ==
    (Done /\ "q" \in opts /\ ("e" \in opts \/ "n" \in opts))
        => (run.retcode = STATUS_INVALID_ARGS /\ run.calls = <<>>)

\* The messages that are warnings, not errors.
Warnings == {"path_error", "path_hint", "shadowed"}

Succeeded == /\ \A i \in 1..Len(run.errs) : run.errs[i] \in Warnings
             /\ ~WriteFailed

\* C4: with none of --erase, --names, --query, --show, a successful invocation
\* returns the exit status that was current before it ran.
C4_StatusPassesThrough ==
    (Done /\ opts \cap {"e", "n", "q", "S", "h"} = {} /\ Succeeded)
        => run.retcode = last_status

\* What one query target adds to the status: 1 for a missing name, the number of
\* requested indexes outside 1..length for a slice.
QueryMisses(arg) ==
    IF wcschr(arg, "[") # 0
    THEN LET n == Len(Fetched(env_get_string(env0, DestOf(arg), ScopeOf(opts))))
             requested == parse_index(<<>>, arg, DestOf(arg), n).indexes
         IN Cardinality({j \in 1..Len(requested) : requested[j] < 1 \/ requested[j] > n})
    ELSE IF env_exist(env0, arg, ScopeOf(opts)) THEN 0 ELSE 1

RECURSIVE QueryMissesFrom(_)
QueryMissesFrom(i) == IF i > Len(argv) THEN 0 ELSE QueryMisses(argv[i]) + QueryMissesFrom(i + 1)

WellFormedQuery == /\ Done /\ "q" \in opts /\ opts \cap {"e", "n", "S", "h"} = {}
                   /\ Len(argv) > 0
                   /\ \A i \in 1..Len(argv) : argv[i] \in WellFormedTargets

\* C5: in query mode with well-formed targets the exit status is the number of
\* missing names plus the number of requested indexes that name no element.
C5_QueryCountsMissing == WellFormedQuery => run.retcode = QueryMissesFrom(1)

\* set -q f[1 2] when f has exactly one element returns 1; so does set -q v when
\* v does not exist.
C5_Witness ==
    /\ WellFormedQuery
    /\ argv = <<Token(NameF, <<Numeral(1), Numeral(2)>>), NameV>>
    /\ Len(Fetched(env_get_string(env0, NameF, ScopeOf(opts)))) = 1
    /\ run.retcode = 2

\* The elements of old at the positions from i on that are not in listed.
RECURSIVE Surviving(_, _, _)
Surviving(old, listed, i) ==
    IF i > Len(old) THEN <<>>
    ELSE (IF i \in listed THEN <<>> ELSE <<old[i]>>) \o Surviving(old, listed, i + 1)

\* The command reached erase_values (slice mode, --erase, the variable exists).
SlicedErase == Done /\ run.slice /\ "e" \in opts /\ run.set_called

\* C6: a sliced erase leaves the elements at the positions not listed, in their
\* order; the length drops by the number of distinct listed indexes in
\* 1..old length, and other or repeated indexes cause no error.
C6_EraseRemovesListed ==
    SlicedErase =>
        /\ ArrayIn(env) = Surviving(ArrayIn(env0), IndexSet, 1)
        /\ Len(ArrayIn(env)) =
               Len(ArrayIn(env0)) - Cardinality(IndexSet \cap (1..Len(ArrayIn(env0))))
        /\ run.errs = <<>>
        /\ run.retcode = STATUS_CMD_OK

\* An erase whose list repeats an index in range and names one out of range.
C6_Witness ==
    /\ SlicedErase
    /\ Len(run.indexes) > Cardinality(IndexSet \cap (1..Len(ArrayIn(env0))))
    /\ IndexSet \cap (1..Len(ArrayIn(env0))) # {}
    /\ Len(ArrayIn(env0)) >= 2
    /\ Len(ArrayIn(env)) > 0

\* The last pair of the assignment that names position p.
LastPair(p) == SetMax({i \in 1..Len(run.indexes) : run.indexes[i] = p})

\* C7: a sliced assignment with all indexes positive leaves an array of length
\* max(old length, largest index) in which a named position holds the value of
\* the last pair naming it, an unnamed position above the old length the empty
\* string, and an unnamed position up to the old length its old element.
C7_AssignGrowsAndOverwrites ==
    (SlicedAssignment /\ \A i \in IndexSet : i > 0) =>
        /\ Len(run.value) = Len(run.indexes)
        /\ Len(ArrayIn(env)) = SetMax(IndexSet \cup {Len(ArrayIn(env0))})
        /\ \A p \in 1..Len(ArrayIn(env)) :
               ArrayIn(env)[p] = IF p \in IndexSet THEN run.value[LastPair(p)]
                                 ELSE IF p > Len(ArrayIn(env0)) THEN <<>>
                                 ELSE ArrayIn(env0)[p]

\* set f[2 2] a b on a missing or empty f leaves ["", "b"].
C7_Witness ==
    /\ SlicedAssignment
    /\ argv = <<Token(NameF, <<Numeral(2), Numeral(2)>>), ValA, ValB>>
    /\ ArrayIn(env0) = <<>>
    /\ ArrayIn(env) = <<<<>>, ValB>>

\* The indexes the first k arguments hold, read as index tokens of the variable.
RECURSIVE TokenIndexes(_)
TokenIndexes(k) ==
    IF k = 0 THEN <<>>
    ELSE parse_index(TokenIndexes(k - 1), argv[k], run.dest, Len(ArrayIn(env0))).indexes

\* The first k arguments are index tokens whose indexes are as many as the
\* arguments that follow them.
CountsMatch(k) == /\ \A i \in 1..k : wcschr(argv[i], "[") # 0
                  /\ Len(TokenIndexes(k)) = Len(argv) - k

\* C8: a sliced assignment whose index tokens hold a number of indexes other
\* than the number of values fails without calling env_set.
C8_CountMismatchFails ==
    (Done /\ run.slice /\ opts = {} /\ ~\E k \in 1..Len(argv) : CountsMatch(k)) =>
        /\ run.retcode # 0
        /\ "env_set" \notin {run.calls[i] : i \in 1..Len(run.calls)}
        /\ env = env0

\* set f[1 2] a on an f that holds elements: one value for two indexes.
C8_Witness ==
    /\ Done
    /\ opts = {}
    /\ argv = <<Token(NameF, <<Numeral(1), Numeral(2)>>), ValA>>
    /\ Len(ArrayIn(env0)) > 0
    /\ run.retcode = 1
    /\ env = env0

\* A value of a path variable passes validation.
Passes(dir) ==
    \/ Len(dir) = 0
    \/ dir[1] # "/"
    \/ \E i \in 1..Len(Fetched(env_get_string(env0, run.dest, ENV_DEFAULT))) :
           Fetched(env_get_string(env0, run.dest, ENV_DEFAULT))[i] = dir
    \/ dir \in TraversableDirs

Failing == {i \in 1..Len(run.set_list) : ~Passes(run.set_list[i])}

PathAssignment == Done /\ run.set_called /\ is_path_variable(run.dest)

\* C9: an assignment to PATH or CDPATH fails, without calling env_set, exactly
\* when values were given and none passes; otherwise the write proceeds and each
\* failing value draws one warning.  The whole-array command returns the error.
C9_PathFailsOnlyWhenNonePasses ==
    PathAssignment =>
        /\ (run.set_ret = STATUS_CMD_ERROR
              /\ "env_set" \notin {run.calls[i] : i \in 1..Len(run.calls)})
           <=> (Len(run.set_list) > 0 /\ Cardinality(Failing) = Len(run.set_list))
        /\ Cardinality({i \in 1..Len(run.errs) : run.errs[i] = "path_error"})
               = Cardinality(Failing)
        /\ ~run.slice => /\ run.set_list = Tail(argv)
                         /\ run.set_ret = STATUS_CMD_ERROR
                                => run.retcode = STATUS_CMD_ERROR

\* set PATH /x r with /x no directory: a warning for /x, and the write proceeds.
C9_Witness ==
    /\ PathAssignment
    /\ run.dest = PATH
    /\ run.set_list = <<DirX, RelR>>
    /\ Failing = {1}
    /\ "env_set" \in {run.calls[i] : i \in 1..Len(run.calls)}
    /\ ArrayIn(env) = <<DirX, RelR>>

\* The arguments of a show command that use slice syntax.
SlicedArgs == {i \in 1..Len(argv) : wcschr(argv[i], "[") # 0}

\* C10: in show mode a target with slice syntax stops the command with the
\* slice error and an error status; nothing is reported for it or after it.
C10_ShowRejectsSlices ==
    (Done /\ "S" \in opts /\ "h" \notin opts /\ SlicedArgs # {}) =>
        /\ run.retcode = STATUS_CMD_ERROR
        /\ "show_no_slices" \in {run.errs[i] : i \in 1..Len(run.errs)}
        /\ \A r \in 1..Len(run.out) : \A j \in 1..Len(argv) :
               (\E i \in SlicedArgs : i <= j) => run.out[r].key # argv[j]

(***************************************************************************)
(* Properties of parse_index, about the states of SpecParse.               *)
(***************************************************************************)
\* if v < 0 then length + v + 1
Resolved(v, L) == IF v >= 0 THEN v ELSE L + v + 1

\* The inclusive sequence from A to B, counting down when B < A.
Sequence(A, B) == IF B >= A THEN [i \in 1..(B - A + 1) |-> A + i - 1]
                  ELSE [i \in 1..(A - B + 1) |-> A - i + 1]

Expansion(e, L) == IF Len(e) = 1 THEN <<Resolved(e[1], L)>>
                   ELSE Sequence(Resolved(e[1], L), Resolved(e[2], L))

\* The expansions of the expressions es from the i-th on, one after the other.
RECURSIVE ExpansionFrom(_, _, _)
ExpansionFrom(es, L, i) ==
    IF i > Len(es) THEN <<>> ELSE Expansion(es[i], L) \o ExpansionFrom(es, L, i + 1)

\* The expressions a well-formed token was written from.
ExprsOf(tok) == CHOOSE es \in ExprLists :
                    tok \in {Token(NameF, Rendered(es)), SpacedToken(NameF, Rendered(es))}

\* What the well-formed tokens argv[1..k] expand to.
RECURSIVE Expanded(_)
Expanded(k) ==
    IF k = 0 THEN <<>>
    ELSE Expanded(k - 1) \o ExpansionFrom(ExprsOf(argv[k]), Len(run.result), 1)

\* parse_index has been called on argv[1..Len(run.calls)].
ParsedTokens == /\ pc = "parse"
                /\ Len(run.calls) > 0

WellFormedParsed == /\ ParsedTokens
                    /\ \A k \in 1..Len(run.calls) : argv[k] \in WellFormedTokens

\* C11: on a well-formed token name[e1 e2 ...] parse_index appends, in order,
\* the expansion of each ei - v, or length + v + 1 for a negative v; for a
\* range the inclusive sequence between its resolved ends, up or down - and
\* returns the number of indexes it appended.
C11_ParseIndexExpands ==
    WellFormedParsed =>
        /\ run.indexes = Expanded(Len(run.calls))
        /\ run.retcode = Len(Expanded(Len(run.calls))) - Len(Expanded(Len(run.calls) - 1))
        /\ run.errs = <<>>

\* f[-1 3..1] for an array of 3 elements, after f[1]: 1, then 3, then 3 2 1.
C11_Witness ==
    /\ ParsedTokens
    /\ Len(run.result) = 3
    /\ argv = <<Token(NameF, <<Numeral(0 - 1), RangeExpr(3, 1)>>), Token(NameF, <<Numeral(1)>>)>>
    /\ Len(run.calls) = 2
    /\ run.indexes = <<3, 3, 2, 1, 1>>
    /\ run.retcode = 1


\* The last token parsed is a range cut short, the tokens before it well-formed.
TruncatedParsed ==
    /\ ParsedTokens
    /\ argv[Len(run.calls)] \in TruncatedTokens
    /\ \A k \in 1..(Len(run.calls) - 1) : argv[k] \in WellFormedTokens

\* C13: on a range whose upper bound is missing or no number, parse_index
\* appends the resolved lower bound after the indexes of the expressions
\* before it, stops, and reports success.
C13_TruncatedRangeEmitsLower ==
    TruncatedParsed =>
        \A pre \in TruncatedPrefixes, low \in TruncatedLows, rest \in RangeEnds :
            argv[Len(run.calls)] = TruncatedToken(pre, low, rest) =>
                /\ run.retcode # 0
                /\ run.errs = <<>>
                /\ run.indexes = Expanded(Len(run.calls) - 1)
                                     \o ExpansionFrom(pre, Len(run.result), 1)
                                     \o <<Resolved(low, Len(run.result))>>

(***************************************************************************)
(* Properties of the slice commands with faulty index tokens, about the    *)
(* states of SpecTokens.                                                   *)
(***************************************************************************)
\* The refused tokens that are written as index tokens.
RefusedIndexTokens == RefusedTokens \ {ValA}

\* The tokens whose range has, for an upper bound, something that is no number
\* or nothing before the end of the token.
UnparsableUpper == {TruncatedToken(pre, low, rest) :
                        pre \in TruncatedPrefixes, low \in TruncatedLows,
                        rest \in {<<"x", "]">>, <<>>}}

\* argv[k] is read as an index token: the tokens before it are well-formed and
\* in an assignment none of them completes a match of indexes and values.
ReadAsToken(k) ==
    \A j \in 1..(k - 1) : /\ argv[j] \in WellFormedTokens
                          /\ "e" \in opts \/ ~CountsMatch(j)

SlicedCommand == Done /\ run.slice /\ opts \subseteq {"e"}

Aborted == /\ run.retcode # 0
           /\ "env_set" \notin {run.calls[i] : i \in 1..Len(run.calls)}
           /\ env = env0

\* C12: a sliced assignment or erase with a malformed index token - a number
\* that cannot be parsed, no closing bracket, another name - aborts with a
\* nonzero status and writes nothing.
C12_MalformedTokenAborts ==
    (SlicedCommand /\ \E k \in 1..Len(argv) :
         ReadAsToken(k) /\ argv[k] \in RefusedIndexTokens \cup UnparsableUpper)
        => Aborted

\* C12 without the ranges whose upper bound is missing or unparsable: a token
\* that is malformed anywhere else, or names another variable, aborts the
\* command with a nonzero status and nothing written.
C12_RefusedTokenAborts ==
    (SlicedCommand /\ \E k \in 1..Len(argv) :
         ReadAsToken(k) /\ argv[k] \in RefusedIndexTokens)
        => Aborted

\* set f[1] f[x] a b on an f that holds elements: the first token parsed, the
\* second is refused, f is as it was.
C12_Witness ==
    /\ SlicedCommand
    /\ argv = <<Token(NameF, <<Numeral(1)>>), NameF \o <<"[", "x", "]">>, ValA, ValB>>
    /\ Len(ArrayIn(env0)) > 0
    /\ run.indexes = <<1>>
    /\ Aborted


\* C14: whenever builtin_set reaches update_values, the values it collected -
\* the arguments after the index tokens - are as many as the indexes all the
\* tokens gave, so that update_values reads no value that is not there.
C14_ValuesMatchIndexes ==
    SlicedAssignment =>
        /\ Len(run.value) = Len(run.indexes)
        /\ run.value = SubSeq(argv, Len(argv) - Len(run.value) + 1, Len(argv))
        /\ \A i \in 1..Len(run.indexes) : i \in DOMAIN run.value

\* set f[1..] f[1] a: the first token gives no index, the second gives one.
C14_Witness ==
    /\ SlicedAssignment
    /\ argv = <<TruncatedToken(<<>>, 1, <<"]">>), Token(NameF, <<Numeral(1)>>), ValA>>
    /\ run.indexes = <<1>>
    /\ run.value = <<ValA>>


=============================================================================
